---------------------------- MODULE Spec2Model ----------------------------
(***************************************************************************)
(* A model of jj, a JSON transaction journal (jj.go, apply.go).            *)
(*                                                                         *)
(* A byte slice is a sequence of one-character strings.  A Go sub-slice    *)
(* json[p:] of a buffer is represented by the buffer and the 0-based       *)
(* offset p of its first byte, so every "consume" function returns the     *)
(* offset at which the remaining slice starts.                             *)
(***************************************************************************)
EXTENDS Integers, Sequences, FiniteSets, TLC

Q  == "\""      \* the double quote byte
BS == "\\"      \* the backslash byte
WS == {" ", "\t", "\n", "\r"}
Digit == {"0", "1", "2", "3", "4", "5", "6", "7", "8", "9"}

\* Results that are not offsets.
NotFound == -1      \* locateAccessor's "not found"; bytes.IndexByte's "absent"
PANIC    == -2      \* a Go run-time panic (index or slice bounds out of range)
HANG     == -3      \* a loop that never terminates
IsFail(r) == r < NotFound

\* Buffers standing for "the call panicked" and "the call never returned".
PanicBuf == <<"!panic">>
HangBuf  == <<"!hang">>
FailBuf(r) == IF r = HANG THEN HangBuf ELSE PanicBuf
IsFailBuf(b) == b = PanicBuf \/ b = HangBuf

\* A nil *json.RawMessage.
Nil == <<"!nil">>

At(json, p) == json[p + 1]
Slice(json, from, to) == SubSeq(json, from + 1, to)   \* json[from:to]

\* bytes.IndexByte / bytes.IndexAny on json[p:], as an absolute offset.
RECURSIVE IndexAny(_, _, _)
IndexAny(json, p, cs) ==
    IF p >= Len(json) THEN NotFound
    ELSE IF At(json, p) \in cs THEN p
    ELSE IndexAny(json, p + 1, cs)

\* "v := e; body": e is written once and body reads its value as v.
With(e, F(_)) == F(e)

(***************************************************************************)
(* The scanner of apply.go.                                                *)
(***************************************************************************)
RECURSIVE consumeWhitespace(_, _)
consumeWhitespace(json, p) ==
    IF p < Len(json) /\ At(json, p) \in WS
    THEN consumeWhitespace(json, p + 1)
    ELSE p

consumeSeparator(json, p) ==
    IF p >= Len(json) THEN PANIC              \* json[1:] of an empty slice
    ELSE consumeWhitespace(json, p + 1)

\* The loop of consumeString: i is the offset of a quote.
RECURSIVE consumeStringLoop(_, _)
consumeStringLoop(json, i) ==
    IF At(json, i - 1) = BS
    THEN With(IndexAny(json, i + 1, {Q}), LAMBDA nxt :
           IF nxt = NotFound
           THEN HANG      \* i++; i += -1: i is unchanged, json[i-1] is still a backslash
           ELSE consumeStringLoop(json, nxt))
    ELSE i + 1

consumeString(json, p) ==
    IF p >= Len(json) THEN PANIC              \* json[1:] of an empty slice
    ELSE With(IndexAny(json, p + 1, {Q}), LAMBDA i :
           IF i = NotFound THEN PANIC         \* i = 0, json[i-1] is json[-1]
           ELSE consumeStringLoop(json, i))

\* A run of digits starting at p; the Go loops return from consumeNumber as
\* soon as the slice is exhausted, which is the result Len(json).
RECURSIVE consumeDigits(_, _)
consumeDigits(json, p) ==
    IF p >= Len(json) THEN PANIC              \* json[0] of an empty slice
    ELSE IF At(json, p) \in Digit
         THEN IF p + 1 = Len(json) THEN p + 1
              ELSE consumeDigits(json, p + 1)
         ELSE p

\* consumeNumber from its exponent on.
consumeExponent(json, p) ==
    IF At(json, p) \in {"e", "E"}
    THEN IF p + 1 >= Len(json) THEN PANIC
         ELSE consumeDigits(json, IF At(json, p + 1) \in {"+", "-"} THEN p + 2 ELSE p + 1)
    ELSE p

\* consumeNumber from its decimal point on.
consumeFraction(json, p) ==
    IF At(json, p) = "."
    THEN With(consumeDigits(json, p + 1), LAMBDA d :
           IF IsFail(d) \/ d = Len(json) THEN d ELSE consumeExponent(json, d))
    ELSE consumeExponent(json, p)

consumeNumber(json, p) ==
    With(consumeDigits(json, IF At(json, p) = "-" THEN p + 1 ELSE p), LAMBDA d :
      IF IsFail(d) \/ d = Len(json) THEN d ELSE consumeFraction(json, d))

\* The loops of consumeObject and consumeArray: n open brackets, scanning
\* from p for the next bracket of the kind or the next string.
RECURSIVE consumeNested(_, _, _, _, _)
consumeNested(json, p, n, open, close) ==
    IF n = 0 THEN p
    ELSE With(IndexAny(json, p, {open, close, Q}), LAMBDA i :
           IF i = NotFound THEN PANIC         \* json[-1:]
           ELSE IF At(json, i) = open
                THEN consumeNested(json, i + 1, n + 1, open, close)
           ELSE IF At(json, i) = close
                THEN consumeNested(json, i + 1, n - 1, open, close)
           ELSE With(consumeString(json, i), LAMBDA s :
                  IF IsFail(s) THEN s
                  ELSE consumeNested(json, s, n, open, close)))

consumeObject(json, p) == consumeNested(json, p + 1, 1, "{", "}")

consumeArray(json, p) == consumeNested(json, p + 1, 1, "[", "]")

consumeValue(json, p) ==
    IF p >= Len(json) THEN PANIC              \* json[0] of an empty slice
    ELSE CASE At(json, p) = "{" -> consumeObject(json, p)
           [] At(json, p) = "[" -> consumeArray(json, p)
           [] At(json, p) = Q -> consumeString(json, p)
           [] At(json, p) \in {"t", "n"} ->
                 IF p + 4 > Len(json) THEN PANIC ELSE p + 4
           [] At(json, p) = "f" ->
                 IF p + 5 > Len(json) THEN PANIC ELSE p + 5
           [] OTHER -> consumeNumber(json, p)

\* parseString: the key between the quotes and the offset after the string.
parseString(json, p) ==
    With(consumeString(json, p), LAMBDA after :
      IF IsFail(after) THEN [key |-> <<>>, after |-> after]
      ELSE [key |-> Slice(json, p + 1, after - 1), after |-> after])

(***************************************************************************)
(* Paths.                                                                  *)
(***************************************************************************)
\* strings.Split(path, "."): the accessors of a path.
RECURSIVE Split(_)
Split(path) ==
    With(IndexAny(path, 0, {"."}), LAMBDA i :
      IF i = NotFound THEN <<path>>
      ELSE <<Slice(path, 0, i)>> \o Split(Slice(path, i + 1, Len(path))))

DigitSeq == <<"0", "1", "2", "3", "4", "5", "6", "7", "8", "9">>
DigitVal(c) == (CHOOSE k \in 1..10 : DigitSeq[k] = c) - 1

RECURSIVE DigitsValue(_, _)
DigitsValue(ds, acc) ==
    IF ds = <<>> THEN acc
    ELSE DigitsValue(Tail(ds), 10 * acc + DigitVal(Head(ds)))

\* strconv.Atoi: an optional sign and at least one digit, or an error.
Atoi(s) ==
    LET signed == s # <<>> /\ Head(s) \in {"+", "-"}
        ds == IF signed THEN Tail(s) ELSE s
    IN  IF ds = <<>> \/ \E k \in 1..Len(ds) : ds[k] \notin Digit
        THEN [err |-> TRUE, n |-> 0]
        ELSE [err |-> FALSE,
              n |-> IF signed /\ Head(s) = "-" THEN 0 - DigitsValue(ds, 0)
                    ELSE DigitsValue(ds, 0)]

(***************************************************************************)
(* locateAccessor(json[p:], acc): the offset of acc's value, relative to   *)
(* p; for an array index equal to the array's length, the offset of the    *)
(* closing bracket.                                                        *)
(***************************************************************************)
\* The object loop: q is the offset of the next key (or of the closing brace).
RECURSIVE locateKey(_, _, _, _)
locateKey(json, p, q, acc) ==
    IF IsFail(q) THEN q
    ELSE IF q >= Len(json) THEN PANIC
    ELSE IF At(json, q) = "}" THEN NotFound
    ELSE With(parseString(json, q), LAMBDA ps :
      IF IsFail(ps.after) THEN ps.after
      ELSE With(consumeSeparator(json, consumeWhitespace(json, ps.after)), LAMBDA c :
        IF IsFail(c) THEN c
        ELSE IF ps.key = acc THEN c - p
        ELSE With(consumeValue(json, c), LAMBDA v :
          IF IsFail(v) THEN v
          ELSE With(consumeWhitespace(json, v), LAMBDA w :
            IF w >= Len(json) THEN PANIC
            ELSE locateKey(json, p,
                           IF At(json, w) = "," THEN consumeSeparator(json, w) ELSE w,
                           acc)))))

\* The array loop: q is the offset of element number arrayLen (or of the
\* closing bracket).
RECURSIVE locateIndex(_, _, _, _, _)
locateIndex(json, p, q, n, arrayLen) ==
    IF IsFail(q) THEN q
    ELSE IF n > arrayLen
    THEN IF q >= Len(json) THEN PANIC
         ELSE IF At(json, q) # "]"
         THEN With(consumeValue(json, q), LAMBDA v :
                IF IsFail(v) THEN v
                ELSE With(consumeWhitespace(json, v), LAMBDA w :
                  IF w >= Len(json) THEN PANIC
                  ELSE locateIndex(json, p,
                         IF At(json, w) = "," THEN consumeSeparator(json, w) ELSE w,
                         n, arrayLen + 1)))
         ELSE NotFound                        \* n > arrayLen at the closing bracket
    ELSE q - p

locateAccessor(json, p, acc) ==
    With(consumeWhitespace(json, p), LAMBDA q :
      IF Len(json) - q = 0 \/ Len(json) - q < Len(acc) THEN NotFound
      ELSE CASE At(json, q) = "{" ->
                  locateKey(json, p, consumeSeparator(json, q), acc)
             [] At(json, q) = "[" ->
                  With(Atoi(acc), LAMBDA a :
                    IF a.err \/ a.n < 0 THEN NotFound
                    ELSE locateIndex(json, p, consumeSeparator(json, q), a.n, 0))
             [] OTHER -> NotFound)

(***************************************************************************)
(* modifyPath and Update.apply.                                            *)
(***************************************************************************)
\* The loop of modifyPath over the accessors: the offset i of the addressed
\* value, NotFound when json is to be returned unmodified, or a failure.
RECURSIVE modifyPathLocate(_, _, _, _)
modifyPathLocate(json, accs, n, i) ==
    IF n > Len(accs) THEN i
    ELSE With(locateAccessor(json, i, accs[n]), LAMBDA off :
           IF off = NotFound THEN NotFound
           ELSE IF IsFail(off) THEN off
           ELSE IF off >= Len(json) THEN PANIC                   \* json[off]
           ELSE IF At(json, off) = "]" /\ n # Len(accs) THEN NotFound
           ELSE modifyPathLocate(json, accs, n + 1, i + off))

\* The splice of modifyPath at offset i.
modifyPathReplace(json, accs, i, val) ==
    IF i >= Len(json) THEN PanicBuf                              \* json[i]
    ELSE With(consumeValue(json, i), LAMBDA rest :
           IF IsFail(rest) THEN FailBuf(rest)
           ELSE Slice(json, 0, i)
                \o (IF At(json, i) = "]" /\ accs[Len(accs)] # <<"0">>
                    THEN <<",">> ELSE <<>>)
                \o val \o Slice(json, rest, Len(json)))

modifyPath(json, path, val) ==
    IF path = <<>> THEN val
    ELSE With(Split(path), LAMBDA accs :
           With(modifyPathLocate(json, accs, 1, 0), LAMBDA i :
             IF i = NotFound THEN json
             ELSE IF IsFail(i) THEN FailBuf(i)
             ELSE modifyPathReplace(json, accs, i, val)))

\* deletePath is called by apply but is not part of the sources; the
\* specification has no delete: an update without a value is ignored.
deletePath(json, path) == json

\* Update.apply: u is [Path, Delete, Value], Value being Nil for a nil pointer.
apply(u, obj) ==
    IF ~u.Delete /\ u.Value = Nil THEN PanicBuf                  \* len(*u.Value)
    ELSE IF ~u.Delete /\ Len(u.Value) = 0 THEN obj
    ELSE IF u.Path = <<>>
         THEN IF u.Value = Nil THEN PanicBuf ELSE u.Value        \* *u.Value
    ELSE IF u.Delete THEN deletePath(obj, u.Path)
    ELSE modifyPath(obj, u.Path, u.Value)

(***************************************************************************)
(* encoding/json as OpenJournal uses it: the syntax scanner that           *)
(* json.Decoder.Decode and json.Unmarshal run over a value before storing  *)
(* it.  The bytes of the model hold no \u escape.                          *)
(***************************************************************************)
SyntaxErr     == -4     \* *json.SyntaxError
UnexpectedEOF == -5     \* io.ErrUnexpectedEOF: the input ends inside a value
IsScanErr(r) == r < 0

EscapeChars == {Q, BS, "/", "b", "f", "n", "r", "t"}

\* p is the offset after the opening quote; the offset after the closing one.
RECURSIVE scanString(_, _)
scanString(b, p) ==
    IF p >= Len(b) THEN UnexpectedEOF
    ELSE IF At(b, p) = Q THEN p + 1
    ELSE IF At(b, p) = BS
         THEN IF p + 1 >= Len(b) THEN UnexpectedEOF
              ELSE IF At(b, p + 1) \in EscapeChars THEN scanString(b, p + 2)
              ELSE SyntaxErr
    ELSE IF At(b, p) \in {"\n", "\t", "\r"} THEN SyntaxErr     \* control character
    ELSE scanString(b, p + 1)

RECURSIVE scanDigits(_, _)
scanDigits(b, p) ==
    IF p < Len(b) /\ At(b, p) \in Digit THEN scanDigits(b, p + 1) ELSE p

\* At least one digit from p on.
scanDigits1(b, p) ==
    IF p >= Len(b) THEN UnexpectedEOF
    ELSE IF At(b, p) \notin Digit THEN SyntaxErr
    ELSE scanDigits(b, p + 1)

scanExp(b, p) ==
    IF IsScanErr(p) THEN p
    ELSE IF p < Len(b) /\ At(b, p) \in {"e", "E"}
    THEN scanDigits1(b, IF p + 1 < Len(b) /\ At(b, p + 1) \in {"+", "-"}
                        THEN p + 2 ELSE p + 1)
    ELSE p

scanFrac(b, p) ==
    scanExp(b, IF p < Len(b) /\ At(b, p) = "." THEN scanDigits1(b, p + 1) ELSE p)

\* s is the offset of the first digit of the number.
scanInt(b, s) ==
    IF s >= Len(b) THEN UnexpectedEOF
    ELSE IF At(b, s) \notin Digit THEN SyntaxErr
    ELSE scanFrac(b, IF At(b, s) = "0" THEN s + 1 ELSE scanDigits(b, s + 1))

\* p is the offset of the first byte of the number ("-" or a digit).
scanNumber(b, p) == scanInt(b, IF At(b, p) = "-" THEN p + 1 ELSE p)

RECURSIVE scanLiteral(_, _, _)
scanLiteral(b, p, word) ==
    IF word = <<>> THEN p
    ELSE IF p >= Len(b) THEN UnexpectedEOF
    ELSE IF At(b, p) # Head(word) THEN SyntaxErr
    ELSE scanLiteral(b, p + 1, Tail(word))

LiteralOf(c) ==
    CASE c = "t" -> <<"t", "r", "u", "e">>
      [] c = "f" -> <<"f", "a", "l", "s", "e">>
      [] c = "n" -> <<"n", "u", "l", "l">>

\* The scanner's states inside containers, after a value that ended at v (or an
\* error v): "key" looks for a key's opening quote, "colon" for the colon
\* after a key, "member" and "element" for what follows a value of an object
\* and of an array, "value" for a value.
RECURSIVE scanFrom(_, _, _)
scanFrom(b, st, v) ==
    IF IsScanErr(v) THEN v
    ELSE With(consumeWhitespace(b, v), LAMBDA q :
      IF q >= Len(b) THEN UnexpectedEOF
      ELSE CASE st = "key" ->
                  IF At(b, q) # Q THEN SyntaxErr
                  ELSE scanFrom(b, "colon", scanString(b, q + 1))
             [] st = "colon" ->
                  IF At(b, q) # ":" THEN SyntaxErr
                  ELSE scanFrom(b, "member", scanFrom(b, "value", q + 1))
             [] st = "member" ->
                  IF At(b, q) = "}" THEN q + 1
                  ELSE IF At(b, q) = "," THEN scanFrom(b, "key", q + 1)
                  ELSE SyntaxErr
             [] st = "element" ->
                  IF At(b, q) = "]" THEN q + 1
                  ELSE IF At(b, q) = ","
                       THEN scanFrom(b, "element", scanFrom(b, "value", q + 1))
                  ELSE SyntaxErr
             [] st = "value" ->
                  IF At(b, q) = "{"
                  THEN With(consumeWhitespace(b, q + 1), LAMBDA m :
                         IF m < Len(b) /\ At(b, m) = "}" THEN m + 1
                         ELSE scanFrom(b, "key", m))
                  ELSE IF At(b, q) = "["
                  THEN With(consumeWhitespace(b, q + 1), LAMBDA m :
                         IF m < Len(b) /\ At(b, m) = "]" THEN m + 1
                         ELSE scanFrom(b, "element", scanFrom(b, "value", m)))
                  ELSE IF At(b, q) = Q THEN scanString(b, q + 1)
                  ELSE IF At(b, q) \in {"t", "f", "n"}
                       THEN scanLiteral(b, q, LiteralOf(At(b, q)))
                  ELSE IF At(b, q) = "-" \/ At(b, q) \in Digit THEN scanNumber(b, q)
                  ELSE SyntaxErr)

\* The offset after the value that starts at or after p (white space is
\* skipped), or the error the scanner reports.
scanValue(b, p) == scanFrom(b, "value", p)

\* json.Unmarshal's checkValid: one value and nothing but white space after it.
Valid(b) ==
    With(scanValue(b, 0), LAMBDA e :
      ~IsScanErr(e) /\ consumeWhitespace(b, e) = Len(b))

(***************************************************************************)
(* encoding/json storing a scanned value into a []Update.                  *)
(***************************************************************************)
\* A JSON string's text (between its quotes) with its escapes decoded.
EscapeValue(c) ==
    CASE c = "n" -> "\n" [] c = "t" -> "\t" [] c = "r" -> "\r"
      [] c = "f" -> "\f" [] c = "b" -> "^H" [] OTHER -> c

RECURSIVE Unquote(_)
Unquote(raw) ==
    IF raw = <<>> THEN <<>>
    ELSE IF Head(raw) = BS
         THEN <<EscapeValue(raw[2])>> \o Unquote(Tail(Tail(raw)))
         ELSE <<Head(raw)>> \o Unquote(Tail(raw))

\* The members of a valid object, p being the offset of the first key's quote
\* or of the closing brace: each its decoded key and its value's bounds.
RECURSIVE objectMembers(_, _)
objectMembers(b, p) ==
    IF At(b, p) = "}" THEN <<>>
    ELSE With(scanString(b, p + 1), LAMBDA k :
      With(consumeWhitespace(b, consumeWhitespace(b, k) + 1), LAMBDA vs :
        With(scanValue(b, vs), LAMBDA ve :
          With(consumeWhitespace(b, ve), LAMBDA w :
            <<[key |-> Unquote(Slice(b, p + 1, k - 1)), vs |-> vs, ve |-> ve]>>
            \o (IF At(b, w) = ","
                THEN objectMembers(b, consumeWhitespace(b, w + 1))
                ELSE <<>>)))))

\* The elements of a valid array, p being the offset of the first element or
\* of the closing bracket: each element's bounds.
RECURSIVE arrayElements(_, _)
arrayElements(b, p) ==
    IF At(b, p) = "]" THEN <<>>
    ELSE With(scanValue(b, p), LAMBDA ve :
      With(consumeWhitespace(b, ve), LAMBDA w :
        <<[vs |-> p, ve |-> ve]>>
        \o (IF At(b, w) = ","
            THEN arrayElements(b, consumeWhitespace(b, w + 1))
            ELSE <<>>)))

\* The zero Update.
ZeroUpdate == [Path |-> <<>>, Delete |-> FALSE, Value |-> Nil]

\* One member stored into the Update r.u; a value of the wrong kind is an
\* UnmarshalTypeError, recorded in r.err.  Fields are matched by their json
\* tag, ignoring case; null leaves a string or a bool as it is and makes the
\* *json.RawMessage pointer nil.
storeMember(b, m, r) ==
    With(At(b, m.vs), LAMBDA c :
      IF m.key \in {<<"p">>, <<"P">>}
      THEN IF c = Q
           THEN [r EXCEPT !.u.Path = Unquote(Slice(b, m.vs + 1, m.ve - 1))]
           ELSE IF c = "n" THEN r ELSE [r EXCEPT !.err = TRUE]
      ELSE IF m.key \in {<<"d">>, <<"D">>}
      THEN IF c \in {"t", "f"} THEN [r EXCEPT !.u.Delete = (c = "t")]
           ELSE IF c = "n" THEN r ELSE [r EXCEPT !.err = TRUE]
      ELSE IF m.key \in {<<"v">>, <<"V">>}
      THEN IF c = "n" THEN [r EXCEPT !.u.Value = Nil]
           ELSE [r EXCEPT !.u.Value = Slice(b, m.vs, m.ve)]
      ELSE r)

RECURSIVE storeMembers(_, _, _)
storeMembers(b, ms, r) ==
    IF ms = <<>> THEN r
    ELSE storeMembers(b, Tail(ms), storeMember(b, Head(ms), r))

\* One array element stored as an Update.
storeUpdate(b, e) ==
    IF At(b, e.vs) = "{"
    THEN storeMembers(b, objectMembers(b, consumeWhitespace(b, e.vs + 1)),
                      [u |-> ZeroUpdate, err |-> FALSE])
    ELSE [u |-> ZeroUpdate, err |-> At(b, e.vs) # "n"]

RECURSIVE storeUpdates(_, _)
storeUpdates(b, es) ==
    IF es = <<>> THEN [set |-> <<>>, err |-> FALSE]
    ELSE With(storeUpdate(b, Head(es)), LAMBDA h :
      With(storeUpdates(b, Tail(es)), LAMBDA t :
        [set |-> <<h.u>> \o t.set, err |-> h.err \/ t.err]))

\* What Decode reports for the scan of the value at offset q, which ended at e.
DecodeResult(b, q, e) ==
    IF q >= Len(b) THEN [err |-> "EOF", raw |-> <<>>, next |-> q]
    ELSE IF e = SyntaxErr THEN [err |-> "syntax", raw |-> <<>>, next |-> q]
    ELSE IF e = UnexpectedEOF
         THEN [err |-> "unexpected EOF", raw |-> <<>>, next |-> q]
    ELSE [err |-> "nil", raw |-> Slice(b, q, e), next |-> e]

\* dec.Decode(&initObj) at offset p of the file b: the raw bytes of the next
\* value.  err is "nil", "EOF" (nothing but white space is left), "syntax" or
\* "unexpected EOF".
DecodeRaw(b, p) ==
    With(consumeWhitespace(b, p), LAMBDA q : DecodeResult(b, q, scanValue(b, q)))

\* The value d, decoded by DecodeRaw, stored into a []Update; err may also be
\* "type" (an *json.UnmarshalTypeError).
StoreSet(d) ==
    IF d.err # "nil" THEN [err |-> d.err, set |-> <<>>, next |-> d.next]
    ELSE IF Head(d.raw) = "["
         THEN With(storeUpdates(d.raw, arrayElements(d.raw, consumeWhitespace(d.raw, 1))),
                LAMBDA s : [err |-> IF s.err THEN "type" ELSE "nil",
                            set |-> s.set, next |-> d.next])
    ELSE IF Head(d.raw) = "n" THEN [err |-> "nil", set |-> <<>>, next |-> d.next]
    ELSE [err |-> "type", set |-> <<>>, next |-> d.next]

\* dec.Decode(&set) at offset p of the file b.
DecodeSet(b, p) == StoreSet(DecodeRaw(b, p))

(***************************************************************************)
(* Updates and the record Journal.Update writes.                           *)
(***************************************************************************)
\* NewUpdate(path, val): data is the JSON encoding of val, Nil for a nil val.
NewUpdate(path, data) == [Path |-> path, Delete |-> data = Nil, Value |-> data]

\* One update as Journal.Update writes it: path and value are copied verbatim.
encodeUpdate(u) ==
    <<"{", Q, "p", Q, ":", Q>> \o u.Path
    \o (IF u.Value = Nil
        THEN <<Q, ",", Q, "d", Q, ":", "t", "r", "u", "e">>
        ELSE <<Q, ",", Q, "v", Q, ":">> \o u.Value)
    \o <<"}">>

RECURSIVE encodeUpdates(_, _)
encodeUpdates(us, i) ==
    IF i > Len(us) THEN <<>>
    ELSE (IF i > 1 THEN <<",">> ELSE <<>>) \o encodeUpdate(us[i])
         \o encodeUpdates(us, i + 1)

\* A Journal.Update that writes a record for each update of the set, not one
\* for the set: a crash between two of them breaks TornWriteAtomic.
RECURSIVE encodeEach(_, _)
encodeEach(us, i) ==
    IF i > Len(us) THEN <<>>
    ELSE <<"[">> \o encodeUpdate(us[i]) \o <<"]", "\n">> \o encodeEach(us, i + 1)

encodeSetPerUpdate(us) == encodeEach(us, 1)

\* The buffer Journal.Update hands to Write.
encodeSet(us) == <<"[">> \o encodeUpdates(us, 1) \o <<"]", "\n">>

\* The bytes json.NewEncoder(tmp).Encode(obj) writes, obj being given by its
\* JSON encoding.
encodeSnapshot(snap) == snap \o <<"\n">>

\* f.Write(buf) at file offset pos.
WriteAt(f, pos, buf) ==
    SubSeq(f, 1, pos) \o buf \o SubSeq(f, pos + Len(buf) + 1, Len(f))

(***************************************************************************)
(* OpenJournal's reading of the file.                                      *)
(***************************************************************************)
\* for _, u := range set { initObj = u.apply(initObj) }
RECURSIVE applySet(_, _)
applySet(set, initObj) ==
    IF set = <<>> \/ IsFailBuf(initObj) THEN initObj
    ELSE applySet(Tail(set), apply(Head(set), initObj))

\* The loop over the update sets: d is what dec.Decode(&set) gave and o what
\* applying the set gave.  sets are the sets that were decoded and handed to
\* apply.
RECURSIVE replaySets(_, _, _, _)
replayStep(b, initObj, sets, d, o) ==
    IF d.err = "EOF" THEN [err |-> "nil", obj |-> initObj, sets |-> sets]
    ELSE IF d.err # "nil" THEN [err |-> d.err, obj |-> initObj, sets |-> sets]
    ELSE IF o = PanicBuf
         THEN [err |-> "panic", obj |-> initObj, sets |-> Append(sets, d.set)]
    ELSE IF o = HangBuf
         THEN [err |-> "hang", obj |-> initObj, sets |-> Append(sets, d.set)]
    ELSE replaySets(b, d.next, o, Append(sets, d.set))

replaySets(b, p, initObj, sets) ==
    With(DecodeSet(b, p), LAMBDA d :
      replayStep(b, initObj, sets, d, applySet(d.set, initObj)))

\* json.Unmarshal(initObj, obj) after the loop.
openJournalUnmarshal(r) ==
    IF r.err # "nil" THEN r
    ELSE IF ~Valid(r.obj) THEN [r EXCEPT !.err = "syntax"]
    ELSE r

\* An OpenJournal that takes a file without a snapshot for a new journal and
\* returns a Journal for it: it breaks OpenFailsWithoutSnapshot.
openJournalFresh(b) ==
    With(DecodeRaw(b, 0), LAMBDA first :
      IF first.err # "nil" THEN [err |-> "nil", obj |-> <<>>, sets |-> <<>>]
      ELSE openJournalUnmarshal(replaySets(b, first.next, first.raw, <<>>)))

\* What OpenJournal computes from the bytes b of the file: the error it
\* returns ("nil" for none; "panic" and "hang" when it does not return), the
\* object it decodes into obj, and the update sets it applied.
openJournal(b) ==
    With(DecodeRaw(b, 0), LAMBDA first :
      IF first.err # "nil" THEN [err |-> first.err, obj |-> <<>>, sets |-> <<>>]
      ELSE openJournalUnmarshal(replaySets(b, first.next, first.raw, <<>>)))

(***************************************************************************)
(* The inputs of the model.                                                *)
(***************************************************************************)
MaxRecords == 2     \* update-set records written after a snapshot
MaxApplies == 2     \* updates applied in a row to one buffer

NoFile == <<"!nofile">>

Key(k) == <<Q>> \o k \o <<Q, ":">>
P(a, b) == a \o <<".">> \o b

\* {"x":3,"y":[]}
DocXY == <<"{">> \o Key(<<"x">>) \o <<"3", ",">> \o Key(<<"y">>) \o <<"[", "]", "}">>
\* {"x":0,"y":[]}
DocX0 == <<"{">> \o Key(<<"x">>) \o <<"0", ",">> \o Key(<<"y">>) \o <<"[", "]", "}">>

\* The journal file as the caller seeds it before the first OpenJournal, or
\* no file at all.
SeedFiles == {NoFile, DocXY \o <<"\n">>}

\* The objects passed to Checkpoint, as their JSON encodings.
Snapshots == {DocX0}

\* The update sets passed to Journal.Update.
SetY     == <<NewUpdate(P(<<"y">>, <<"0">>), <<"1">>),
              NewUpdate(<<"x">>, <<"2">>)>>
SetNull  == <<NewUpdate(<<"x">>, <<"n", "u", "l", "l">>)>>
SetQuote == <<NewUpdate(<<Q>>, <<"1">>)>>
UpdateSets == {SetY, SetNull, SetQuote}

\* Update sets with a malformed update: a path that resolves to nothing
\* before an update of x, and a value that is not JSON.
SetMissing == <<NewUpdate(<<"z">>, <<"1">>), NewUpdate(<<"x">>, <<"2">>)>>
SetBadValue == <<NewUpdate(<<"x">>, <<"}">>)>>
MalformedSets == {SetQuote, SetMissing, SetBadValue}

\* How many bytes of a temp-file write reach the disk when it fails: all but
\* the last (none is the file os.Create leaves).
TornTmp(buf) == {Len(buf) - 1}

(***************************************************************************)
(* State.                                                                  *)
(***************************************************************************)
VARIABLES
    file,       \* the bytes of the file at the journal's path, or NoFile
    tmpfile,    \* the bytes of the file at path + "_tmp", or NoFile
    jf,         \* j.f: "nil" (no Journal), "open" or "closed"
    jpos,       \* the file offset of j.f
    pc,         \* where a Checkpoint call stands: "idle" when none is running
    tpos,       \* the file offset of the running Checkpoint's tmp
    ckObj,      \* the obj of the running Checkpoint, as its JSON encoding
    obj,        \* what the last successful OpenJournal decoded into obj
    err,        \* what the last call returned
    nrec,       \* records written to the file since its snapshot
    base,       \* history: the document of the last open or Checkpoint,
                \*          and which of the two ("open", "checkpoint") gave it
    issued,     \* history: the sets whose Update returned nil since then
    torn,       \* history: the last write cut off by a crash
    ck,         \* history: the last Checkpoint call
    abuf,       \* apply: the buffer
    aprev,      \* apply: the buffer before the last apply
    aupd,       \* apply: the last update applied
    aout,       \* apply: what the last apply returned
    an,         \* apply: the number of applies so far
    sjson,      \* consumeString: the buffer it is given
    sret        \* consumeString: the buffer it returned, Nil before the call

jvars == <<file, tmpfile, jf, jpos, pc, tpos, ckObj, obj, err, nrec,
           base, issued, torn, ck>>
avars == <<abuf, aprev, aupd, aout, an>>
svars == <<sjson, sret>>
vars == <<jvars, avars, svars>>

NoTorn == [st |-> "none", before |-> <<>>, set |-> <<>>, k |-> 0]
NoCk == [st |-> "none", orig |-> <<>>, snap |-> <<>>]

NoBase == [doc |-> <<>>, from |-> "none"]

JInit(files) ==
    /\ file \in files
    /\ tmpfile = NoFile
    /\ jf = "nil"
    /\ jpos = 0
    /\ pc = "idle"
    /\ tpos = 0
    /\ ckObj = <<>>
    /\ obj = <<>>
    /\ err = "nil"
    /\ nrec = 0
    /\ base = NoBase
    /\ issued = <<>>
    /\ torn = NoTorn
    /\ ck = NoCk

AIdle ==
    /\ abuf = <<>>
    /\ aprev = <<>>
    /\ aupd = ZeroUpdate
    /\ aout = <<>>
    /\ an = 0

SIdle ==
    /\ sjson = <<>>
    /\ sret = Nil

Init == JInit(SeedFiles) /\ AIdle /\ SIdle

(***************************************************************************)
(* The operations of a Journal.                                            *)
(***************************************************************************)
\* OpenJournal(filename, &obj), called when no Journal is open: b is the
\* file's content (O_CREATE makes an empty file) and r what openJournal
\* computes from it.
OpenJournalReturns(b, r) ==
    /\ file' = b
    /\ err' = r.err
    /\ IF r.err = "nil"
       THEN /\ jf' = "open"
            /\ jpos' = Len(b)          \* the decoder has read to the end
            /\ obj' = r.obj
            /\ base' = [doc |-> r.obj, from |-> "open"]
            /\ issued' = <<>>
       ELSE /\ jf' = "nil"
            /\ UNCHANGED <<jpos, obj, base, issued>>

FileBytes(f) == IF f = NoFile THEN <<>> ELSE f

OpenJournal ==
    /\ pc = "idle"
    /\ jf \in {"nil", "closed"}
    /\ OpenJournalReturns(FileBytes(file), openJournal(FileBytes(file)))
    /\ UNCHANGED <<tmpfile, pc, tpos, ckObj, nrec, torn, ck, avars, svars>>

\* j.Update(us): the record is written at the handle's offset and synced.
\* On a closed handle Write fails.
Update(us) ==
    /\ pc = "idle"
    /\ jf \in {"open", "closed"}
    /\ nrec < MaxRecords
    /\ IF jf = "open"
       THEN /\ file' = WriteAt(file, jpos, encodeSet(us))
            /\ jpos' = jpos + Len(encodeSet(us))
            /\ err' = "nil"
            /\ nrec' = nrec + 1
            /\ issued' = Append(issued, us)
            /\ torn' = NoTorn
            /\ ck' = NoCk
       ELSE /\ err' = "closed"
            /\ UNCHANGED <<file, jpos, nrec, issued, torn, ck>>
    /\ UNCHANGED <<tmpfile, jf, pc, tpos, ckObj, obj, base, avars, svars>>

\* The process dies while j.Update(us) writes: k bytes of the record reach
\* the file, and what the process held in memory is gone.
UpdateCrash(us, k) ==
    /\ pc = "idle"
    /\ jf = "open"
    /\ nrec < MaxRecords
    /\ file' = WriteAt(file, jpos, SubSeq(encodeSet(us), 1, k))
    /\ nrec' = nrec + 1
    /\ torn' = [st |-> "torn", before |-> file, set |-> us, k |-> k]
    /\ jf' = "nil"
    /\ jpos' = 0
    /\ tpos' = 0
    /\ ckObj' = <<>>
    /\ obj' = <<>>
    /\ err' = "crash"
    /\ base' = NoBase
    /\ issued' = <<>>
    /\ ck' = NoCk
    /\ UNCHANGED <<tmpfile, pc, avars, svars>>

\* j.Close()
Close ==
    /\ pc = "idle"
    /\ jf \in {"open", "closed"}
    /\ jf' = "closed"
    /\ err' = IF jf = "open" THEN "nil" ELSE "closed"
    /\ UNCHANGED <<file, tmpfile, jpos, pc, tpos, ckObj, obj, nrec,
                   base, issued, torn, ck, avars, svars>>

\* A Checkpoint that creates its file at the journal's own path, which
\* truncates the journal: it breaks CheckpointAtomic.
CheckpointCreateInPlace(snap) ==
    /\ pc = "idle"
    /\ jf \in {"open", "closed"}
    /\ file' = <<>>
    /\ tmpfile' = <<>>
    /\ tpos' = 0
    /\ ckObj' = snap
    /\ pc' = "encode"
    /\ ck' = [st |-> "running", orig |-> file, snap |-> snap]
    /\ torn' = NoTorn
    /\ UNCHANGED <<jf, jpos, obj, err, nrec, base, issued, avars, svars>>

\* j.Checkpoint(obj), step by step.  os.Create(j.filename + "_tmp")
CheckpointCreate(snap) ==
    /\ pc = "idle"
    /\ jf \in {"open", "closed"}
    /\ tmpfile' = <<>>
    /\ tpos' = 0
    /\ ckObj' = snap
    /\ pc' = "encode"
    /\ ck' = [st |-> "running", orig |-> file, snap |-> snap]
    /\ torn' = NoTorn
    /\ UNCHANGED <<file, jf, jpos, obj, err, nrec, base, issued, avars, svars>>

\* json.NewEncoder(tmp).Encode(obj)
CheckpointEncode ==
    /\ pc = "encode"
    /\ tmpfile' = WriteAt(tmpfile, tpos, encodeSnapshot(ckObj))
    /\ tpos' = tpos + Len(encodeSnapshot(ckObj))
    /\ pc' = "newline"
    /\ UNCHANGED <<file, jf, jpos, ckObj, obj, err, nrec, base, issued,
                   torn, ck, avars, svars>>

\* tmp.Write([]byte{'\n'})
CheckpointNewline ==
    /\ pc = "newline"
    /\ tmpfile' = WriteAt(tmpfile, tpos, <<"\n">>)
    /\ tpos' = tpos + 1
    /\ pc' = "sync"
    /\ UNCHANGED <<file, jf, jpos, ckObj, obj, err, nrec, base, issued,
                   torn, ck, avars, svars>>

\* tmp.Sync()
CheckpointSync ==
    /\ pc = "sync"
    /\ pc' = "close"
    /\ UNCHANGED <<file, tmpfile, jf, jpos, tpos, ckObj, obj, err, nrec,
                   base, issued, torn, ck, avars, svars>>

\* j.f.Close(): closing a closed handle is an error, and Checkpoint returns it.
CheckpointClose ==
    /\ pc = "close"
    /\ jf' = "closed"
    /\ IF jf = "open"
       THEN /\ pc' = "rename"
            /\ UNCHANGED <<err, ck, tpos, ckObj>>
       ELSE /\ pc' = "idle"
            /\ err' = "closed"
            /\ ck' = [ck EXCEPT !.st = "failed"]
            /\ tpos' = 0
            /\ ckObj' = <<>>
    /\ UNCHANGED <<file, tmpfile, jpos, obj, nrec, base, issued, torn, avars, svars>>

\* os.Rename(j.filename + "_tmp", j.filename); j.f = tmp; return nil
CheckpointRename ==
    /\ pc = "rename"
    /\ file' = tmpfile
    /\ tmpfile' = NoFile
    /\ jf' = "open"
    /\ jpos' = tpos
    /\ pc' = "idle"
    /\ err' = "nil"
    /\ nrec' = 0
    /\ base' = [doc |-> ckObj, from |-> "checkpoint"]
    /\ issued' = <<>>
    /\ ck' = [ck EXCEPT !.st = "done"]
    /\ tpos' = 0
    /\ ckObj' = <<>>
    /\ UNCHANGED <<obj, torn, avars, svars>>

\* The step at which Checkpoint stands fails, and Checkpoint returns the
\* error.  A failed Encode may have written some of its bytes; a failed
\* j.f.Close leaves the handle closed.
CheckpointFails ==
    /\ pc # "idle"
    /\ pc' = "idle"
    /\ err' = "io"
    /\ ck' = [ck EXCEPT !.st = "failed"]
    /\ IF pc = "encode"
       THEN \E k \in TornTmp(encodeSnapshot(ckObj)) :
                tmpfile' = WriteAt(tmpfile, tpos, SubSeq(encodeSnapshot(ckObj), 1, k))
       ELSE tmpfile' = tmpfile
    /\ jf' = IF pc = "close" THEN "closed" ELSE jf
    /\ tpos' = 0
    /\ ckObj' = <<>>
    /\ UNCHANGED <<file, jpos, obj, nrec, base, issued, torn, avars, svars>>

\* os.Create(j.filename + "_tmp") fails.
CheckpointCreateFails(snap) ==
    /\ pc = "idle"
    /\ jf \in {"open", "closed"}
    /\ err' = "io"
    /\ ck' = [st |-> "failed", orig |-> file, snap |-> snap]
    /\ torn' = NoTorn
    /\ UNCHANGED <<file, tmpfile, jf, jpos, pc, tpos, ckObj, obj, nrec,
                   base, issued, avars, svars>>

\* The process dies, between calls or inside Checkpoint: the files stay as
\* they are, and what the process held in memory is gone.
Crash ==
    /\ jf # "nil"
    /\ jf' = "nil"
    /\ jpos' = 0
    /\ pc' = "idle"
    /\ tpos' = 0
    /\ ckObj' = <<>>
    /\ obj' = <<>>
    /\ err' = "crash"
    /\ base' = NoBase
    /\ issued' = <<>>
    /\ ck' = IF pc # "idle" THEN [ck EXCEPT !.st = "crashed"] ELSE ck
    /\ UNCHANGED <<file, tmpfile, nrec, torn, avars, svars>>

Next ==
    \/ OpenJournal
    \/ \E us \in UpdateSets : Update(us)
    \/ \E us \in UpdateSets : \E k \in 0..Len(encodeSet(us)) : UpdateCrash(us, k)
    \/ Close
    \/ \E snap \in Snapshots : CheckpointCreate(snap)
    \/ \E snap \in Snapshots : CheckpointCreateFails(snap)
    \/ CheckpointEncode
    \/ CheckpointNewline
    \/ CheckpointSync
    \/ CheckpointClose
    \/ CheckpointRename
    \/ CheckpointFails
    \/ Crash

Spec == Init /\ [][Next]_vars

\* The journal given malformed updates among well-formed ones, without
\* crashes and checkpoints.
NextMalformed ==
    \/ OpenJournal
    \/ \E us \in MalformedSets \cup {SetY} : Update(us)
    \/ Close

SpecMalformed == Init /\ [][NextMalformed]_vars

(***************************************************************************)
(* Update.apply on its own: updates applied in a row to one buffer.        *)
(***************************************************************************)
\* {"a":[]}
DocA == <<"{">> \o Key(<<"a">>) \o <<"[", "]", "}">>
\* [[1],[1,[9]]]
DocNested == <<"[", "[", "1", "]", ",", "[", "1", ",", "[", "9", "]", "]", "]">>
\* {"x":1,"x":2}
DocDup == <<"{">> \o Key(<<"x">>) \o <<"1", ",">> \o Key(<<"x">>) \o <<"2", "}">>
\* []
DocEmpty == <<"[", "]">>

Docs == {DocA, DocNested, DocDup, DocEmpty}

ApplyPaths ==
    {<<>>, <<"x">>, <<"0">>, <<"0", "0">>,
     P(<<"a">>, <<"0">>), P(<<"a">>, <<"1">>), P(<<"a">>, <<"5">>),
     P(P(<<"a">>, <<"0">>), <<"b">>),
     P(P(<<"1">>, <<"1">>), <<"0">>),
     P(P(<<"0">>, <<"1">>), <<"x">>)}

\* ["\\"]: an array of one string, which holds one (escaped) backslash
ValBackslash == <<"[", Q, BS, BS, Q, "]">>

\* Values, and the empty value a json.Marshaler may produce.
ApplyValues == {<<"7">>, ValBackslash, <<>>}

\* Updates as NewUpdate builds them, a delete, and updates as Unmarshal
\* decodes them from a record without a "v" member.
ApplyUpdates ==
    {NewUpdate(p, v) : p \in ApplyPaths, v \in ApplyValues}
    \cup {NewUpdate(<<"x">>, Nil)}
    \cup {[ZeroUpdate EXCEPT !.Path = p] : p \in {<<>>, <<"x">>}}

InitApply ==
    /\ JInit({NoFile})
    /\ abuf \in Docs
    /\ aprev = <<>>
    /\ aupd = ZeroUpdate
    /\ aout = <<>>
    /\ an = 0
    /\ SIdle

\* obj = u.apply(obj); nothing follows an apply that did not return.
Apply(u) ==
    /\ an < MaxApplies
    /\ ~IsFailBuf(aout)
    /\ aprev' = abuf
    /\ aupd' = u
    /\ aout' = apply(u, abuf)
    /\ abuf' = IF IsFailBuf(aout') THEN abuf ELSE aout'
    /\ an' = an + 1
    /\ UNCHANGED <<jvars, svars>>

NextApply == \E u \in ApplyUpdates : Apply(u)

SpecApply == InitApply /\ [][NextApply]_vars
(***************************************************************************)
(* What a path addresses in a well-formed document, read off the           *)
(* document's structure (its members and elements as encoding/json         *)
(* delimits them) and not off the offsets locateAccessor computes.         *)
(***************************************************************************)
FirstMember(ms, acc) == CHOOSE k \in 1..Len(ms) :
    ms[k].key = acc /\ \A j \in 1..(k - 1) : ms[j].key # acc

\* The accessors accs[n..] followed from the value at offset vs.  kind is
\*   "value"     every accessor names an existing element, spanning [vs, ve)
\*   "append"    the last accessor is the length of the array whose closing
\*               bracket is at vs; len is that length
\*   "beyond"    the last accessor is an index above the array's length
\*   "midappend" an accessor that is not the last is the length of its array
\*   "none"      anything else
RECURSIVE Addressed(_, _, _, _)
AddressedIn(b, accs, n, vs, ms, es, idx) ==
    IF At(b, vs) = "{"
    THEN IF \E k \in 1..Len(ms) : ms[k].key = accs[n]
         THEN Addressed(b, accs, n + 1, ms[FirstMember(ms, accs[n])].vs)
         ELSE [kind |-> "none", vs |-> 0, ve |-> 0, len |-> 0]
    ELSE IF At(b, vs) = "[" /\ ~idx.err /\ idx.n >= 0
    THEN IF idx.n < Len(es) THEN Addressed(b, accs, n + 1, es[idx.n + 1].vs)
         ELSE IF idx.n = Len(es)
         THEN [kind |-> IF n = Len(accs) THEN "append" ELSE "midappend",
               vs |-> scanValue(b, vs) - 1, ve |-> scanValue(b, vs) - 1,
               len |-> Len(es)]
         ELSE [kind |-> IF n = Len(accs) THEN "beyond" ELSE "none",
               vs |-> 0, ve |-> 0, len |-> Len(es)]
    ELSE [kind |-> "none", vs |-> 0, ve |-> 0, len |-> 0]

Addressed(b, accs, n, vs) ==
    IF n > Len(accs)
    THEN [kind |-> "value", vs |-> vs, ve |-> scanValue(b, vs), len |-> 0]
    ELSE AddressedIn(b, accs, n, vs,
           IF At(b, vs) = "{"
           THEN objectMembers(b, consumeWhitespace(b, vs + 1)) ELSE <<>>,
           IF At(b, vs) = "["
           THEN arrayElements(b, consumeWhitespace(b, vs + 1)) ELSE <<>>,
           Atoi(accs[n]))

\* What the update u addresses in the buffer b.
AddressedBy(u, b) ==
    IF Valid(b) /\ u.Path # <<>>
    THEN Addressed(b, Split(u.Path), 1, consumeWhitespace(b, 0))
    ELSE [kind |-> "none", vs |-> 0, ve |-> 0, len |-> 0]

\* An apply has run, of an update that sets a (non-empty) value.
Applied == an > 0
SetsValue(u) == ~u.Delete /\ u.Value # Nil /\ u.Value # <<>>

\* C7: Update.apply returns for every buffer, path and value (it neither
\* panics nor runs forever), and returns the buffer unchanged whenever the
\* update's value is empty or absent.
ApplyNeverFails ==
    Applied =>
        /\ ~IsFailBuf(aout)
        /\ (aupd.Value = Nil \/ aupd.Value = <<>>) => aout = aprev

\* The last apply spliced the value over the addressed one.
ReplacedAt(a) ==
    a.kind = "value" =>
        aout = Slice(aprev, 0, a.vs) \o aupd.Value
               \o Slice(aprev, a.ve, Len(aprev))

\* C8: when every accessor of the path names an existing element of a
\* well-formed document, apply returns buffer[:offset] + value + the bytes
\* that follow the old value.
ReplacesAddressedValue ==
    (Applied /\ SetsValue(aupd)) => ReplacedAt(AddressedBy(aupd, aprev))

\* The last apply appended the value to the addressed array, or left the
\* buffer alone when the index is above the array's length.
AppendedAt(a) ==
    /\ a.kind = "append" =>
          aout = Slice(aprev, 0, a.vs)
                 \o (IF a.len > 0 THEN <<",">> ELSE <<>>)
                 \o aupd.Value \o Slice(aprev, a.vs, Len(aprev))
    /\ a.kind = "beyond" => aout = aprev

\* C9: when the last accessor is the length of the array addressed by the
\* accessors before it, apply inserts the value before the closing bracket,
\* after a comma exactly when the array was not empty; when it is greater
\* than the length, apply returns the buffer unchanged.
AppendsAtLength ==
    (Applied /\ SetsValue(aupd)) => AppendedAt(AddressedBy(aupd, aprev))

\* The last apply left the buffer alone if a is an append inside the path.
RejectedAt(a) == a.kind = "midappend" => aout = aprev

\* C10: when an accessor that is not the last one is the length of the array
\* it indexes, apply returns the buffer unchanged.
RejectsAppendInside ==
    (Applied /\ SetsValue(aupd)) => RejectedAt(AddressedBy(aupd, aprev))

(***************************************************************************)
(* Properties of the journal.                                              *)
(***************************************************************************)
\* What OpenJournal would compute from the file as it is now.
Reopen == openJournal(FileBytes(file))

\* The update sets applied in order to a document, as the caller applies them
\* in memory.
RECURSIVE applySets(_, _)
applySets(sets, doc) ==
    IF sets = <<>> \/ IsFailBuf(doc) THEN doc
    ELSE applySets(Tail(sets), applySet(Head(sets), doc))

ReopensAs(r, doc) == r.err = "nil" /\ r.obj = doc

\* A Journal exists and no call is running on it.
Quiescent == jf \in {"open", "closed"} /\ pc = "idle"

\* The last record of the file is one a crash cut off inside: at least one of
\* its bytes was written and its closing bracket was not.
TornTail ==
    /\ torn.st = "torn"
    /\ 0 < torn.k
    /\ torn.k < Len(encodeSet(torn.set)) - 1
    /\ file = torn.before \o SubSeq(encodeSet(torn.set), 1, torn.k)

\* The reopen r returned no error and the document of the reopen before.
TornTailRecovered(r, before) ==
    before.err = "nil" => r.err = "nil" /\ r.obj = before.obj

\* C1: OpenJournal on a file whose last update-set record is truncated
\* returns no error, and recovers the document of the records before it.
RecoversFromTornTail ==
    TornTail => TornTailRecovered(Reopen, openJournal(torn.before))

\* C2: after Update calls that returned nil on an open journal, reopening
\* yields every update of every set applied, in order, to the document the
\* journal held when it was opened.
UpdatesRoundTrip ==
    (Quiescent /\ base.from = "open" /\ torn = NoTorn)
        => ReopensAs(Reopen, applySets(issued, base.doc))

\* The number of top-level values the file holds, from offset p on.
RECURSIVE RecordCount(_, _)
RecordCount(b, p) ==
    With(DecodeRaw(b, p), LAMBDA d :
      IF d.err = "nil" THEN 1 + RecordCount(b, d.next)
      ELSE IF d.err = "EOF" THEN 0 ELSE 1)

\* C3: after Update and Checkpoint calls that returned nil, reopening yields
\* the snapshot of the last Checkpoint with the sets issued after it applied
\* in order, and directly after a Checkpoint the file holds one record.
CheckpointRoundTrip ==
    (Quiescent /\ base.from = "checkpoint" /\ torn = NoTorn)
        => /\ ReopensAs(Reopen, applySets(issued, base.doc))
           /\ issued = <<>> => RecordCount(file, 0) = 1

\* The file is orig or new, and a reopen yields the document of orig or the
\* snapshot of the last Checkpoint call.
CheckpointFileIs(orig, new) ==
    /\ file \in {orig, new}
    /\ file # orig => Reopen = [err |-> "nil", obj |-> ck.snap, sets |-> <<>>]

\* C4: from the first step of a Checkpoint call on, whether it is running,
\* has returned (an error or nil) or was cut short by a crash, the file at
\* the journal's path is the original journal or the complete new snapshot
\* record, and a reopen yields the document of the one or the other.
CheckpointAtomic ==
    ck.st # "none"
        => CheckpointFileIs(ck.orig, encodeSnapshot(ck.snap) \o <<"\n">>)

\* A crash cut a Checkpoint short after it had written to the temp file, and
\* the journal was reopened since.
CheckpointCrashedReopened ==
    /\ ck.st = "crashed"
    /\ tmpfile \notin {NoFile, <<>>}
    /\ file = ck.orig
    /\ jf = "open"
    /\ err = "nil"

\* The reopen r did what the reopen before the write or the reopen of the
\* whole record does.
TornSetAllOrNone(r, before, whole) ==
    /\ r.sets = before.sets \/ r.sets = whole.sets
    /\ r.err = "nil" => (r.obj = before.obj \/ r.obj = whole.obj)

\* C5: wherever a crash cuts off the write of an update-set record, a reopen
\* hands to apply what it hands to apply on the file before the write (none
\* of the set) or on the file with the whole record (all of the set), and
\* the document it yields is that of the one or of the other.
TornWriteAtomic ==
    torn.st = "torn"
        => TornSetAllOrNone(Reopen, openJournal(torn.before),
                            openJournal(torn.before \o encodeSet(torn.set)))

\* A crash cut a two-update set between its first and its last byte, and
\* OpenJournal has run on the file since.
TornInsideReopened ==
    /\ TornTail
    /\ Len(torn.set) > 1
    /\ jf = "nil"
    /\ err = "unexpected EOF"

\* Every record from offset p on decodes, except possibly the last one: a
\* record that does not decode has no further record on a later line.
RECURSIVE OnlyLastCorrupt(_, _)
OnlyLastCorruptFrom(b, d, nl) ==
    IF d.err = "EOF" THEN TRUE
    ELSE IF d.err = "nil" THEN OnlyLastCorrupt(b, d.next)
    ELSE nl = NotFound \/ consumeWhitespace(b, nl) = Len(b)

OnlyLastCorrupt(b, p) ==
    With(DecodeRaw(b, p), LAMBDA d :
      OnlyLastCorruptFrom(b, d, IndexAny(b, d.next, {"\n"})))

\* first, the decoding of the snapshot, succeeded and what follows it is well
\* formed.
JournalFileShape(first) ==
    /\ first.err = "nil"
    /\ OnlyLastCorrupt(file, first.next)

\* C6: the journal file is a valid snapshot record followed by update-set
\* records of which only the physically last one may be truncated or invalid.
JournalFileWellFormed ==
    file \notin {NoFile, <<>>} => JournalFileShape(DecodeRaw(file, 0))

(***************************************************************************)
(* Malformed updates.                                                      *)
(***************************************************************************)
\* The updates of the sets, in the order OpenJournal applies them.
RECURSIVE Flatten(_)
Flatten(sets) == IF sets = <<>> THEN <<>> ELSE Head(sets) \o Flatten(Tail(sets))

\* The update is malformed for the document: its path holds a character a
\* JSON string cannot hold as it is, its value is not JSON, or its path
\* resolves to nothing in the document.
InvalidPath(path) == \E k \in 1..Len(path) : path[k] \in {Q, BS}
InvalidValue(u) == u.Value # Nil /\ ~Valid(u.Value)
Unresolved(u, doc) ==
    u.Path # <<>> /\ AddressedBy(u, doc).kind \notin {"value", "append"}
Malformed(u, doc) ==
    InvalidPath(u.Path) \/ InvalidValue(u) \/ Unresolved(u, doc)

\* The updates applied in order to the document, the malformed ones left
\* out; any tells whether one was left out.
RECURSIVE IgnoringMalformed(_, _, _)
IgnoringMalformed(us, doc, any) ==
    IF us = <<>> \/ IsFailBuf(doc) THEN [doc |-> doc, any |-> any]
    ELSE With(Malformed(Head(us), doc), LAMBDA m :
           IgnoringMalformed(Tail(us),
                             IF m THEN doc ELSE apply(Head(us), doc),
                             any \/ m))

\* If e left a malformed update out, the reopen r returned no error and the
\* document of e.
MalformedOnlyIgnored(r, e) == e.any => r.err = "nil" /\ r.obj = e.doc

\* C11: after Update calls that returned nil, of which one was given a set
\* with a malformed update (an invalid character in the path, a path that
\* resolves to nothing, a value that is not JSON), OpenJournal returns no
\* error and the document with every update applied but the malformed ones.
IgnoresMalformedUpdates ==
    (Quiescent /\ base.from # "none" /\ torn = NoTorn)
        => MalformedOnlyIgnored(Reopen,
               IgnoringMalformed(Flatten(issued), base.doc, FALSE))

(***************************************************************************)
(* Errors of OpenJournal and Checkpoint.                                   *)
(***************************************************************************)
\* The first top-level value of the file does not decode (an empty file, as
\* O_CREATE makes it, has none).
SnapshotUndecodable == DecodeRaw(FileBytes(file), 0).err # "nil"

\* OpenJournal returned the error of a decode and no Journal.
ReturnsDecodeError ==
    /\ jf' = "nil"
    /\ err' \in {"EOF", "syntax", "unexpected EOF"}
    /\ obj' = obj

CheckpointReturnsError ==
    \/ \E snap \in Snapshots : CheckpointCreateFails(snap)
    \/ CheckpointFails
    \/ CheckpointClose /\ pc' = "idle"

\* j.f as it was when the running Checkpoint was called: the call closes an
\* open handle before its rename.
HandleAtCall == IF pc = "rename" THEN "open" ELSE jf

\* The Journal is as it was when Checkpoint was called: the same handle state
\* at the same offset of the same file, so that an Update on an open handle
\* appends to it.
JournalAsBefore ==
    /\ jf' = HandleAtCall
    /\ file' = file
    /\ jpos' = jpos

\* C13: when Checkpoint returns an error, at whichever of its steps (create,
\* encode, write, sync, close, rename), the Journal is as it was before the
\* call: its handle is still open on the original file.
CheckpointErrorLeavesJournal ==
    [][CheckpointReturnsError => JournalAsBefore]_vars

(***************************************************************************)
(* consumeString on its own.                                               *)
(***************************************************************************)
MaxString == 5      \* bytes of a buffer given to consumeString

\* Buffers that start at the opening quote of a well-formed JSON string:
\* quotes, backslashes and a letter, a string and what follows it.
StringBufs ==
    {b \in UNION {[1..n -> {Q, BS, "a"}] : n \in 2..MaxString} :
        b[1] = Q /\ ~IsScanErr(scanString(b, 1))}

InitString ==
    /\ JInit({NoFile})
    /\ AIdle
    /\ sjson \in StringBufs
    /\ sret = Nil

\* The buffer consumeString(json) returns, json[i+1:].
consumeStringReturns(json, after) ==
    IF IsFail(after) THEN FailBuf(after) ELSE Slice(json, after, Len(json))

\* sret = consumeString(sjson)
ConsumeString ==
    /\ sret = Nil
    /\ sret' = consumeStringReturns(sjson, consumeString(sjson, 0))
    /\ UNCHANGED <<sjson, jvars, avars>>

NextString == ConsumeString

SpecString == InitString /\ [][NextString]_vars

\* The length of the run of backslashes that ends just before offset k, the
\* opening quote at offset 0 left out.
RECURSIVE BackslashRun(_, _)
BackslashRun(b, k) ==
    IF k > 1 /\ At(b, k - 1) = BS THEN 1 + BackslashRun(b, k - 1) ELSE 0

\* The offsets of the quotes after the opening one that an even-length run of
\* backslashes precedes, and the offset after the first of them.
UnescapedQuotes(b) ==
    {k \in 1..(Len(b) - 1) : At(b, k) = Q /\ BackslashRun(b, k) % 2 = 0}

StringEnd(b) ==
    1 + CHOOSE k \in UnescapedQuotes(b) : \A j \in UnescapedQuotes(b) : k <= j

\* C14: given a buffer that starts at the opening quote of a well-formed
\* JSON string, consumeString returns the buffer from just after the first
\* later quote that an even-length (possibly empty) run of backslashes
\* precedes; a string that ends in an escaped backslash ends at its real
\* closing quote.
ConsumesToClosingQuote ==
    sret # Nil => sret = Slice(sjson, StringEnd(sjson), Len(sjson))

=============================================================================
